---- MODULE Spec2Model ----
(***************************************************************************)
(* A model of src/python/gpuarray.py: the launch planner splay, the        *)
(* grid-stride kernel template, the memoized kernel getters and the        *)
(* GPUArray operators.                                                     *)
(*                                                                         *)
(* Three specifications share the module:                                  *)
(*   SpecSplay  the planner called with arbitrary (bounded) arguments and  *)
(*              the kernel template's loop run with the returned triple;   *)
(*   Spec       two operands of every shape, element type, stream and      *)
(*              content, and one function, method or operator call;        *)
(*   SpecSeq    any sequence of calls on one float32 array.                *)
(***************************************************************************)
EXTENDS Integers, Sequences, FiniteSets, TLC

(***************************************************************************)
(* Bounds of the model.                                                    *)
(***************************************************************************)
MaxN == 20           \* splay: problem sizes 0 .. MaxN
MaxMinThreads == 3   \* splay: min_threads in 1 .. MaxMinThreads
MaxMaxThreads == 4   \* splay: max_threads in 1 .. MaxMaxThreads
MaxBlocks == 3       \* splay: max_blocks in 1 .. MaxBlocks
MaxVal == 1          \* element values are the integers -MaxVal .. MaxVal
MaxScalar == 2       \* scalar operands are the integers -1 .. MaxScalar

(***************************************************************************)
(* Program constants.                                                      *)
(***************************************************************************)
WARP_SIZE == 32
DEFAULT_MAX_THREADS == 128
DEFAULT_MAX_BLOCKS == 80

VARIABLES
    plan,       \* SpecSplay: the last call of splay, arguments and results
    visited,    \* SpecSplay: the indices the kernel's loop body ran for
    launched,   \* SpecSplay: whether the kernel ran with the current plan
    arrays,     \* the live GPUArray objects, by name (0: the unnamed
                \* object the last call returned)
    kernels,    \* the memoize caches: the templates already compiled
    compiles,   \* per template, the calls of drv.SourceModule so far
    last,       \* the last call: operands, outcome and device calls
    called,     \* whether a function, method or operator has been called
    harness     \* the caller: the arguments it draws, and whether it stops
                \* after one call

splayVars == <<plan, visited, launched>>
arrayVars == <<arrays, kernels, compiles, last, called, harness>>
vars == <<plan, visited, launched, arrays, kernels, compiles, last, called,
          harness>>

(***************************************************************************)
(* A faulty splay: its third branch divides the elements over the blocks   *)
(* without first grouping them into warps of min_threads.                  *)
(***************************************************************************)
SplayNoWarpRounding(n, min_threads, max_threads, max_blocks) ==
    IF n < min_threads
    THEN [block_count |-> 1,
          threads_per_block |-> min_threads,
          elems_per_block |-> n]
    ELSE IF n < max_blocks * min_threads
    THEN [block_count |-> (n + min_threads - 1) \div min_threads,
          threads_per_block |-> min_threads,
          elems_per_block |-> min_threads]
    ELSE IF n < max_blocks * max_threads
    THEN LET tpb == (n + max_blocks - 1) \div max_blocks
         IN [block_count |-> max_blocks,
             threads_per_block |-> tpb,
             elems_per_block |-> tpb]
    ELSE LET grp0 == (n + min_threads - 1) \div min_threads
             grp == (grp0 + max_blocks - 1) \div max_blocks
         IN [block_count |-> max_blocks,
             threads_per_block |-> max_threads,
             elems_per_block |-> grp * min_threads]

(***************************************************************************)
(* splay(n, min_threads, max_threads, max_blocks): the four branches, in   *)
(* the order of the code. Python's // on non-negative integers is \div.    *)
(***************************************************************************)
Splay(n, min_threads, max_threads, max_blocks) ==
    IF n < min_threads
    THEN [block_count |-> 1,
          threads_per_block |-> min_threads,
          elems_per_block |-> n]
    ELSE IF n < max_blocks * min_threads
    THEN [block_count |-> (n + min_threads - 1) \div min_threads,
          threads_per_block |-> min_threads,
          elems_per_block |-> min_threads]
    ELSE IF n < max_blocks * max_threads
    THEN LET grp == (n + min_threads - 1) \div min_threads
             tpb == ((grp + max_blocks - 1) \div max_blocks) * min_threads
         IN [block_count |-> max_blocks,
             threads_per_block |-> tpb,
             elems_per_block |-> tpb]
    ELSE LET grp0 == (n + min_threads - 1) \div min_threads
             grp == (grp0 + max_blocks - 1) \div max_blocks
         IN [block_count |-> max_blocks,
             threads_per_block |-> max_threads,
             elems_per_block |-> grp * min_threads]

\* The branch of splay an argument tuple takes.
Regime(n, min_threads, max_threads, max_blocks) ==
    IF n < min_threads THEN "tiny"
    ELSE IF n < max_blocks * min_threads THEN "small"
    ELSE IF n < max_blocks * max_threads THEN "medium"
    ELSE "large"

(***************************************************************************)
(* The kernel template of _get_scalar_kernel. Thread tid of block blk      *)
(* runs  for (i = cta_start + tid; i < n; i += total_threads) { op }.      *)
(* ThreadIndices is the set of i its loop body runs for.                   *)
(***************************************************************************)
RECURSIVE LoopFrom(_, _, _)
LoopFrom(i, n, total_threads) ==
    IF i < n
    THEN {i} \cup LoopFrom(i + total_threads, n, total_threads)
    ELSE {}

\* A faulty kernel: "if (i < n)" in the place of the for loop, one element
\* per thread.
ThreadIndicesNoStride(blk, tid, gridDim, blockDim, n) ==
    LET cta_start == blockDim * blk
        i == cta_start + tid
    IN IF i < n THEN {i} ELSE {}

ThreadIndices(blk, tid, gridDim, blockDim, n) ==
    LET total_threads == gridDim * blockDim
        cta_start == blockDim * blk
    IN LoopFrom(cta_start + tid, n, total_threads)

\* The threads of a block that enter the loop at all: those whose first
\* index cta_start + tid is below n. The other threads run no iteration.
EnteringThreads(blk, blockDim, n) ==
    LET cta_start == blockDim * blk
    IN 0 .. ((IF n - cta_start < blockDim THEN n - cta_start ELSE blockDim) - 1)

\* All threads of the launch: blockIdx.x in 0..gridDim-1, threadIdx.x in 0..blockDim-1.
KernelIndices(gridDim, blockDim, n) ==
    UNION { UNION { ThreadIndices(blk, tid, gridDim, blockDim, n) :
                        tid \in EnteringThreads(blk, blockDim, n) } :
                blk \in 0 .. (gridDim - 1) }


(***************************************************************************)
(* GPUArray objects.                                                       *)
(*                                                                         *)
(* Element values are small integers, on which float32 arithmetic is       *)
(* exact; an operator call whose kernel would produce a value outside      *)
(* Values (or an inexact quotient) is outside the model. numpy dtypes and  *)
(* stream objects are named by strings, the absent stream by "None".       *)
(***************************************************************************)
Values == (0 - MaxVal) .. MaxVal
Scalars == (0 - 1) .. MaxScalar
Shapes == {<<0>>, <<1>>, <<1, 1>>}
DTypes == {"float32", "float64"}
Streams == {"None", "s1", "s2"}
KernelNames == {"axpbyz", "axpb", "multiply", "divide", "divide_r", "fill"}

\* pytools.product(shape)
RECURSIVE product(_)
product(shape) ==
    IF shape = <<>> THEN 1 ELSE Head(shape) * product(Tail(shape))

\* GPUArray._update_kernel_kwargs: the launch configuration kept with the array.
KernelKwargs(size, stream) ==
    LET r == Splay(size, WARP_SIZE, DEFAULT_MAX_THREADS, DEFAULT_MAX_BLOCKS)
    IN [block |-> r.threads_per_block, grid |-> r.block_count, stream |-> stream]

\* GPUArray.__init__: gpudata is a device allocation of size elements when
\* size is not zero (data: what that memory holds) and None otherwise.
NewArray(shape, dtype, stream, data) ==
    [shape |-> shape,
     dtype |-> dtype,
     size |-> product(shape),
     gpudata |-> IF product(shape) # 0 THEN "allocated" ELSE "None",
     data |-> data,
     stream |-> stream,
     kwargs |-> KernelKwargs(product(shape), stream)]

\* The number of drv.mem_alloc calls GPUArray.__init__ makes.
AllocCalls(shape) == IF product(shape) # 0 THEN 1 ELSE 0

\* What device memory, or a host array, of a shape may hold.
Contents(shape) == [1 .. product(shape) -> Values]

\* The objects the caller has names for, without the unnamed result of the
\* previous call, which is released when the next statement runs.
Named == [i \in (DOMAIN arrays) \ {0} |-> arrays[i]]

\* A getter without @memoize: every call compiles.
MustCompileAlways(name, cache) == TRUE

\* @memoize on a getter without arguments: the decorated function runs
\* (and compiles the template) only when the cache does not hold its result.
MustCompile(name, cache) == name \notin cache

\* _get_<name>_kernel(): the cache and the compile counts after the call.
KernelsAfter(name) ==
    IF MustCompile(name, kernels) THEN kernels \cup {name} ELSE kernels

CompilesAfter(name) ==
    IF MustCompile(name, kernels)
    THEN [compiles EXCEPT ![name] = @ + 1]
    ELSE compiles

\* The invocable called with n and the launch configuration.
LaunchRec(name, n, block, grid, stream) ==
    [kernel |-> name, n |-> n, block |-> block, grid |-> grid, stream |-> stream]

\* The memory of size elements after a launch: every index i the threads'
\* loops run for gets the value the operation computes for it, z[i + 1];
\* the rest keeps what it held.
Written(old, size, grid, block, n, z) ==
    LET idx == KernelIndices(grid, block, n)
    IN [j \in 1 .. size |-> IF (j - 1) \in idx THEN z[j] ELSE old[j]]

\* What the elements a launch does not write may hold in a fresh
\* (uninitialised) allocation.
FreshRest(size, grid, block, n) ==
    [{j \in 1 .. size : (j - 1) \notin KernelIndices(grid, block, n)} -> Values]

\* Exact division, the only division the model follows: x / d for d # 0
\* dividing x.
Abs(x) == IF x < 0 THEN 0 - x ELSE x

Exact(x, d) == d # 0 /\ \E q \in (0 - Abs(x)) .. Abs(x) : q * d = x

Quot(x, d) == CHOOSE q \in (0 - Abs(x)) .. Abs(x) : q * d = x

InRange(data) == \A j \in DOMAIN data : data[j] \in Values

\* The record of a call.
Call(op, self, okind, other, status, result, launches, allocs, copies, host) ==
    [op |-> op, self |-> self, okind |-> okind, other |-> other,
     status |-> status, result |-> result, launches |-> launches,
     allocs |-> allocs, copies |-> copies, host |-> host,
     compiled |-> {}]

\* The record of a call that fetched kernel name: compiled holds the
\* template when the getter had to compile it.
Fetched(name, call) ==
    [call EXCEPT !.compiled = IF MustCompile(name, kernels) THEN {name} ELSE {}]

NoCall ==
    [op |-> "none", self |-> 0 - 1, okind |-> "none", other |-> 0,
     status |-> "ok", result |-> 0 - 1, launches |-> <<>>,
     allocs |-> 0, copies |-> 0, host |-> <<>>, compiled |-> {}]

\* The caller goes on unless it stops after one call and has made it.
Ready == ~(harness.once /\ called)

\* A call is made; the planner's variables are those of SpecSplay.
Made ==
    /\ called' = TRUE
    /\ UNCHANGED harness
    /\ UNCHANGED splayVars

(***************************************************************************)
(* The ways a call ends without a kernel.                                  *)
(***************************************************************************)
\* An exception leaves the call: a result array already allocated is
\* released with the frame, nothing is returned.
Raise(op, s, okind, o, status, allocs) ==
    /\ arrays' = Named
    /\ last' = Call(op, s, okind, o, status, 0 - 1, <<>>, allocs, 0, <<>>)
    /\ UNCHANGED <<kernels, compiles>>
    /\ Made

\* "return self": no array is made, no device call.
ReturnSelf(op, s, c) ==
    /\ arrays' = Named
    /\ last' = Call(op, s, "scalar", c, "ok", s, <<>>, 0, 0, <<>>)
    /\ UNCHANGED <<kernels, compiles>>
    /\ Made

\* The fetch of a kernel and its launch over self.size elements with
\* self._kernel_kwargs, writing new into out: out is the fresh result
\* array (outNew) or self.
Launched(op, s, okind, o, name, outNew, new, allocs) ==
    LET S == arrays[s]
    IN /\ InRange(new)
       /\ arrays' = IF outNew
                    THEN Named @@ (0 :> NewArray(S.shape, S.dtype, "None", new))
                    ELSE [Named EXCEPT ![s].data = new]
       /\ kernels' = KernelsAfter(name)
       /\ compiles' = CompilesAfter(name)
       /\ last' = Fetched(name,
                       Call(op, s, okind, o, "ok", IF outNew THEN 0 ELSE s,
                            <<LaunchRec(name, S.size, S.kwargs.block,
                                        S.kwargs.grid, S.kwargs.stream)>>,
                            allocs, 0, <<>>))
       /\ Made

\* What out holds before the launch: the content of self, or of the fresh
\* result array where the launch will not write.
OutBefore(s, outNew) ==
    LET S == arrays[s]
    IN IF outNew
       THEN FreshRest(S.size, S.kwargs.grid, S.kwargs.block, S.size)
       ELSE {S.data}

(***************************************************************************)
(* The kernel invocation wrappers.                                         *)
(***************************************************************************)
\* The stream test of _axpbyz:
\*   if self.stream is not None or other.stream is not None:
\*       assert self.stream is other.stream
StreamAssertHolds(selfStream, otherStream) ==
    (selfStream # "None" \/ otherStream # "None") => selfStream = otherStream

\* _axpbyz(self, selffac, other, otherfac, out), after the caller's
\* "result = GPUArray(self.shape, self.dtype)" when outNew.
Axpbyz(op, s, okind, o, selffac, otherfac, outNew) ==
    LET S == arrays[s]
        O == arrays[o]
        allocs == IF outNew THEN AllocCalls(S.shape) ELSE 0
        status ==
            IF S.dtype # "float32" THEN "AssertionError"
            ELSE IF okind # "array" THEN "AttributeError"
            ELSE IF S.shape # O.shape THEN "AssertionError"
            ELSE IF S.dtype # O.dtype THEN "AssertionError"
            ELSE IF ~StreamAssertHolds(S.stream, O.stream) THEN "AssertionError"
            ELSE "ok"
    IN IF status # "ok"
       THEN Raise(op, s, okind, o, status, allocs)
       ELSE \E old \in OutBefore(s, outNew) :
               LET f(i) == selffac * S.data[i + 1] + otherfac * O.data[i + 1]
                   new == Written(old, S.size, S.kwargs.grid, S.kwargs.block,
                                  S.size, [j \in 1 .. S.size |-> f(j - 1)])
               IN Launched(op, s, okind, o, "axpbyz", outNew, new, allocs)

\* _axpbz(self, selffac, other, out) with selffac = num / den and the scalar
\* other = b.
Axpbz(op, s, c, num, den, b, outNew) ==
    LET S == arrays[s]
        allocs == IF outNew THEN AllocCalls(S.shape) ELSE 0
    IN IF S.dtype # "float32"
       THEN Raise(op, s, "scalar", c, "AssertionError", allocs)
       ELSE \E old \in OutBefore(s, outNew) :
               LET f(i) == Quot(num * S.data[i + 1], den) + b
                   new == Written(old, S.size, S.kwargs.grid, S.kwargs.block,
                                  S.size, [j \in 1 .. S.size |-> f(j - 1)])
               IN /\ \A j \in 1 .. S.size : Exact(num * S.data[j], den)
                  /\ Launched(op, s, "scalar", c, "axpb", outNew, new, allocs)

\* _elwise_multiply(self, other, out): only self.dtype is asserted (twice).
\* An element of other the kernel reads outside other's allocation, or out
\* of memory that holds another element type, is an arbitrary value; the
\* device may also fault on the access.
ElwiseMultiply(op, s, o) ==
    LET S == arrays[s]
        O == arrays[o]
        allocs == AllocCalls(S.shape)
        sound == O.dtype = "float32" /\ O.size >= S.size
        wild == ~sound /\ S.size # 0
    IN IF S.dtype # "float32"
       THEN Raise(op, s, "array", o, "AssertionError", allocs)
       ELSE \/ \E old \in OutBefore(s, TRUE),
                  y \in (IF wild THEN Contents(S.shape) ELSE {O.data}) :
                    LET f(i) == S.data[i + 1] * y[i + 1]
                        new == Written(old, S.size, S.kwargs.grid, S.kwargs.block,
                                       S.size, [j \in 1 .. S.size |-> f(j - 1)])
                    IN Launched(op, s, "array", o, "multiply", TRUE, new, allocs)
            \/ /\ wild
               /\ arrays' = Named
               /\ kernels' = KernelsAfter("multiply")
               /\ compiles' = CompilesAfter("multiply")
               /\ last' = Fetched("multiply",
                               Call(op, s, "array", o, "LaunchError", 0 - 1,
                                    <<LaunchRec("multiply", S.size, S.kwargs.block,
                                                S.kwargs.grid, S.kwargs.stream)>>,
                                    allocs, 0, <<>>))
               /\ Made

\* _rdiv_scalar(self, other, out): z[i] = other / x[i].
RdivScalar(op, s, c) ==
    LET S == arrays[s]
        allocs == AllocCalls(S.shape)
    IN IF S.dtype # "float32"
       THEN Raise(op, s, "scalar", c, "AssertionError", allocs)
       ELSE \E old \in OutBefore(s, TRUE) :
               LET f(i) == Quot(c, S.data[i + 1])
                   new == Written(old, S.size, S.kwargs.grid, S.kwargs.block,
                                  S.size, [j \in 1 .. S.size |-> f(j - 1)])
               IN /\ \A j \in 1 .. S.size : Exact(c, S.data[j])
                  /\ Launched(op, s, "scalar", c, "divide_r", TRUE, new, allocs)

\* _div(self, other, out): z[i] = x[i] / y[i]; the triple splay returns
\* here is not used, the launch takes self._kernel_kwargs.
DivArrays(op, s, o) ==
    LET S == arrays[s]
        O == arrays[o]
        allocs == AllocCalls(S.shape)
        status ==
            IF S.dtype # "float32" THEN "AssertionError"
            ELSE IF S.shape # O.shape THEN "AssertionError"
            ELSE IF S.dtype # O.dtype THEN "AssertionError"
            ELSE "ok"
    IN IF status # "ok"
       THEN Raise(op, s, "array", o, status, allocs)
       ELSE \E old \in OutBefore(s, TRUE) :
               LET f(i) == Quot(S.data[i + 1], O.data[i + 1])
                   new == Written(old, S.size, S.kwargs.grid, S.kwargs.block,
                                  S.size, [j \in 1 .. S.size |-> f(j - 1)])
               IN /\ \A j \in 1 .. S.size : Exact(S.data[j], O.data[j])
                  /\ Launched(op, s, "array", o, "divide", TRUE, new, allocs)

\* The array branch of __rdiv__: the result array is made and the three
\* asserts run; the call expression then fetches the divide kernel and
\* evaluates its arguments, of which out.gpudata names no variable.
RdivArrays(op, s, o) ==
    LET S == arrays[s]
        O == arrays[o]
        allocs == AllocCalls(S.shape)
        status ==
            IF S.dtype # "float32" THEN "AssertionError"
            ELSE IF S.shape # O.shape THEN "AssertionError"
            ELSE IF S.dtype # O.dtype THEN "AssertionError"
            ELSE "NameError"
    IN IF status # "NameError"
       THEN Raise(op, s, "array", o, status, allocs)
       ELSE /\ arrays' = Named
            /\ kernels' = KernelsAfter("divide")
            /\ compiles' = CompilesAfter("divide")
            /\ last' = Fetched("divide",
                            Call(op, s, "array", o, "NameError", 0 - 1, <<>>,
                                 allocs, 0, <<>>))
            /\ Made

(***************************************************************************)
(* Construction, transfers and fill.                                       *)
(***************************************************************************)
HasFreeName == harness.names \ (DOMAIN arrays) # {}

FreeName ==
    CHOOSE i \in harness.names \ (DOMAIN arrays) :
        \A j \in harness.names \ (DOMAIN arrays) : i <= j

\* x = GPUArray(shape, dtype, stream): the operands are made before the
\* calls; the memory allocated holds anything.
Construct ==
    \E shape \in harness.shapes, dtype \in harness.dtypes,
       stream \in harness.streams :
    \E data \in Contents(shape) :
        /\ ~called
        /\ HasFreeName
        /\ arrays' = Named @@ (FreeName :> NewArray(shape, dtype, stream, data))
        /\ last' = Call("__init__", FreeName, "none", 0, "ok", FreeName, <<>>,
                        AllocCalls(shape), 0, <<>>)
        /\ UNCHANGED <<kernels, compiles, called, harness>>
        /\ UNCHANGED splayVars

\* x.set(ary, stream) with a host array ary
Set ==
    /\ Ready
    /\ \E s \in DOMAIN Named, hshape \in harness.shapes, hdtype \in harness.dtypes :
       \E hdata \in Contents(hshape) :
           LET S == arrays[s]
               status == IF product(hshape) # S.size THEN "AssertionError"
                         ELSE IF hdtype # S.dtype THEN "AssertionError"
                         ELSE "ok"
               copy == status = "ok" /\ S.size # 0
           IN /\ arrays' = IF copy THEN [Named EXCEPT ![s].data = hdata] ELSE Named
              /\ last' = Call("set", s, "host", 0, status, 0 - 1, <<>>, 0,
                              IF copy THEN 1 ELSE 0, <<>>)
              /\ UNCHANGED <<kernels, compiles>>
              /\ Made

\* x.get(): a host array of x's shape and dtype is made and filled from the
\* device unless x is empty. x.get(ary) asserts ary's size and dtype first.
Get ==
    /\ Ready
    /\ \E s \in DOMAIN Named, given \in BOOLEAN :
       \E hshape \in harness.shapes \cup {arrays[s].shape},
          hdtype \in harness.dtypes \cup {arrays[s].dtype} :
           LET S == arrays[s]
               status == IF ~given THEN "ok"
                         ELSE IF product(hshape) # S.size THEN "AssertionError"
                         ELSE IF hdtype # S.dtype THEN "AssertionError"
                         ELSE "ok"
               copy == status = "ok" /\ S.size # 0
           IN /\ given \/ (hshape = S.shape /\ hdtype = S.dtype)
              /\ arrays' = Named
              /\ last' = Call("get", s, "host", 0, status, 0 - 1, <<>>, 0,
                              IF copy THEN 1 ELSE 0,
                              IF copy THEN S.data ELSE <<>>)
              /\ UNCHANGED <<kernels, compiles>>
              /\ Made

\* x = to_gpu(ary, stream): GPUArray(ary.shape, ary.dtype), then set(ary, stream).
ToGpu ==
    /\ Ready
    /\ \E hshape \in harness.shapes, hdtype \in harness.dtypes :
       \E hdata \in Contents(hshape) :
           /\ HasFreeName
           /\ arrays' = Named @@ (FreeName :> NewArray(hshape, hdtype, "None", hdata))
           /\ last' = Call("to_gpu", FreeName, "host", 0, "ok", FreeName, <<>>,
                           AllocCalls(hshape), IF product(hshape) # 0 THEN 1 ELSE 0,
                           <<>>)
           /\ UNCHANGED <<kernels, compiles>>
           /\ Made

\* The launch of GPUArray.fill on array record A: splay is called again and
\* the fill kernel launched over A.size elements, whatever A.size is.
FillLaunch(A) ==
    LET r == Splay(A.size, WARP_SIZE, DEFAULT_MAX_THREADS, DEFAULT_MAX_BLOCKS)
    IN LaunchRec("fill", A.size, r.threads_per_block, r.block_count, A.stream)

FillData(A, value) ==
    LET r == Splay(A.size, WARP_SIZE, DEFAULT_MAX_THREADS, DEFAULT_MAX_BLOCKS)
        f(i) == value
    IN Written(A.data, A.size, r.block_count, r.threads_per_block, A.size,
               [j \in 1 .. A.size |-> f(j - 1)])

\* x.fill(value)
Fill ==
    /\ Ready
    /\ \E s \in DOMAIN Named, value \in Values :
           LET S == arrays[s]
           IN IF S.dtype # "float32"
              THEN Raise("fill", s, "scalar", value, "AssertionError", 0)
              ELSE /\ arrays' = [Named EXCEPT ![s].data = FillData(S, value)]
                   /\ kernels' = KernelsAfter("fill")
                   /\ compiles' = CompilesAfter("fill")
                   /\ last' = Fetched("fill",
                                   Call("fill", s, "scalar", value, "ok", s,
                                        <<FillLaunch(S)>>, 0, 0, <<>>))
                   /\ Made

\* x = zeros(shape, dtype, stream): GPUArray(shape, dtype, stream), then fill(0).
Zeros ==
    /\ Ready
    /\ \E shape \in harness.shapes, dtype \in harness.dtypes,
          stream \in harness.streams :
       \E fresh \in Contents(shape) :
           LET A == NewArray(shape, dtype, stream, fresh)
           IN /\ HasFreeName
              /\ IF dtype # "float32"
                 THEN Raise("zeros", FreeName, "none", 0, "AssertionError",
                            AllocCalls(shape))
                 ELSE /\ arrays' = Named @@
                           (FreeName :> [A EXCEPT !.data = FillData(A, 0)])
                      /\ kernels' = KernelsAfter("fill")
                      /\ compiles' = CompilesAfter("fill")
                      /\ last' = Fetched("fill",
                                      Call("zeros", FreeName, "none", 0, "ok",
                                           FreeName, <<FillLaunch(A)>>,
                                           AllocCalls(shape), 0, <<>>))
                      /\ Made

\* GPUArray.compile_kernels(): dir(cls.__module__) lists the attributes of
\* a string, none of which is named _get_..._kernel: nothing is compiled.
CompileKernels ==
    /\ Ready
    /\ arrays' = Named
    /\ last' = Call("compile_kernels", 0 - 1, "none", 0, "ok", 0 - 1, <<>>, 0, 0, <<>>)
    /\ UNCHANGED <<kernels, compiles>>
    /\ Made

(***************************************************************************)
(* The operators. The right operand is a scalar c or an array named o.     *)
(***************************************************************************)
\* A faulty __add__ without the "other == 0" shortcut.
AddNoZeroCheck ==
    /\ Ready
    /\ \E s \in DOMAIN Named :
           \/ \E c \in Scalars : Axpbz("__add__", s, c, 1, 1, c, TRUE)
           \/ \E o \in DOMAIN Named :
                 Axpbyz("__add__", s, "array", o, 1, 1, TRUE)

\* x + other
Add ==
    /\ Ready
    /\ \E s \in DOMAIN Named :
           \/ \E c \in Scalars :
                 IF c = 0
                 THEN ReturnSelf("__add__", s, c)
                 ELSE Axpbz("__add__", s, c, 1, 1, c, TRUE)
           \/ \E o \in DOMAIN Named :
                 Axpbyz("__add__", s, "array", o, 1, 1, TRUE)

\* other + x, with the same function: __radd__ = __add__
Radd ==
    /\ Ready
    /\ \E s \in DOMAIN Named, c \in Scalars :
           IF c = 0
           THEN ReturnSelf("__radd__", s, c)
           ELSE Axpbz("__radd__", s, c, 1, 1, c, TRUE)

\* x - other
Sub ==
    /\ Ready
    /\ \E s \in DOMAIN Named :
           \/ \E c \in Scalars :
                 IF c = 0
                 THEN ReturnSelf("__sub__", s, c)
                 ELSE Axpbz("__sub__", s, c, 1, 1, 0 - c, TRUE)
           \/ \E o \in DOMAIN Named :
                 Axpbyz("__sub__", s, "array", o, 1, 0 - 1, TRUE)

\* other - x
Rsub ==
    /\ Ready
    /\ \E s \in DOMAIN Named :
           \/ \E c \in Scalars :
                 IF c = 0
                 THEN ReturnSelf("__rsub__", s, c)
                 ELSE Axpbz("__rsub__", s, c, 0 - 1, 1, c, TRUE)
           \/ \E o \in DOMAIN Named :
                 Raise("__rsub__", s, "array", o, "AssertionError", 0)

\* x += other: always self._axpbyz(1, other, 1, self)
Iadd ==
    /\ Ready
    /\ \E s \in DOMAIN Named :
           \/ \E c \in Scalars : Axpbyz("__iadd__", s, "scalar", c, 1, 1, FALSE)
           \/ \E o \in DOMAIN Named : Axpbyz("__iadd__", s, "array", o, 1, 1, FALSE)

\* x -= other: always self._axpbyz(1, other, -1, self)
Isub ==
    /\ Ready
    /\ \E s \in DOMAIN Named :
           \/ \E c \in Scalars : Axpbyz("__isub__", s, "scalar", c, 1, 0 - 1, FALSE)
           \/ \E o \in DOMAIN Named : Axpbyz("__isub__", s, "array", o, 1, 0 - 1, FALSE)

\* -x
Neg ==
    /\ Ready
    /\ \E s \in DOMAIN Named : Axpbz("__neg__", s, 0, 0 - 1, 1, 0, TRUE)

\* x * other
Mul ==
    /\ Ready
    /\ \E s \in DOMAIN Named :
           \/ \E c \in Scalars : Axpbz("__mul__", s, c, c, 1, 0, TRUE)
           \/ \E o \in DOMAIN Named : ElwiseMultiply("__mul__", s, o)

\* scalar * x
Rmul ==
    /\ Ready
    /\ \E s \in DOMAIN Named, c \in Scalars : Axpbz("__rmul__", s, c, c, 1, 0, TRUE)

\* x *= scalar
Imul ==
    /\ Ready
    /\ \E s \in DOMAIN Named, c \in Scalars : Axpbz("__imul__", s, c, c, 1, 0, FALSE)

\* x / other
Div ==
    /\ Ready
    /\ \E s \in DOMAIN Named :
           \/ \E c \in Scalars :
                 IF c = 0
                 THEN ReturnSelf("__div__", s, c)
                 ELSE Axpbz("__div__", s, c, 1, c, 0, TRUE)
           \/ \E o \in DOMAIN Named : DivArrays("__div__", s, o)

\* other / x
Rdiv ==
    /\ Ready
    /\ \E s \in DOMAIN Named :
           \/ \E c \in Scalars :
                 IF c = 0
                 THEN ReturnSelf("__rdiv__", s, c)
                 ELSE RdivScalar("__rdiv__", s, c)
           \/ \E o \in DOMAIN Named : RdivArrays("__rdiv__", s, o)

(***************************************************************************)
(* SpecSplay: the planner and the kernel's loop.                           *)
(***************************************************************************)
NoPlan ==
    [called |-> FALSE, n |-> 0, min_threads |-> 1, max_threads |-> 1,
     max_blocks |-> 1, block_count |-> 1, threads_per_block |-> 1,
     elems_per_block |-> 0]

SplayInit ==
    /\ plan = NoPlan
    /\ visited = {}
    /\ launched = FALSE

ArrayInit ==
    /\ arrays = <<>>
    /\ kernels = {}
    /\ compiles = [k \in KernelNames |-> 0]
    /\ last = NoCall
    /\ called = FALSE

\* The caller of Spec: two names, every argument, one call.
OneCall ==
    [once |-> TRUE, names |-> {1, 2}, shapes |-> Shapes, dtypes |-> DTypes,
     streams |-> Streams]

\* The caller of SpecSeq: one float32 array of one element, any calls.
ManyCalls ==
    [once |-> FALSE, names |-> {1}, shapes |-> {<<1>>}, dtypes |-> {"float32"},
     streams |-> {"None"}]

Planned(n, mt, xt, mb) ==
    LET r == Splay(n, mt, xt, mb)
    IN [called |-> TRUE, n |-> n, min_threads |-> mt, max_threads |-> xt,
        max_blocks |-> mb, block_count |-> r.block_count,
        threads_per_block |-> r.threads_per_block,
        elems_per_block |-> r.elems_per_block]

\* A call splay(n, min_threads, max_threads, max_blocks) with positive
\* limits and min_threads <= max_threads.
CallSplay ==
    \E n \in 0 .. MaxN, mt \in 1 .. MaxMinThreads,
       xt \in 1 .. MaxMaxThreads, mb \in 1 .. MaxBlocks :
        /\ mt <= xt
        /\ plan' = Planned(n, mt, xt, mb)
        /\ visited' = {}
        /\ launched' = FALSE
        /\ UNCHANGED arrayVars

\* The sizes around the edges of the four branches for the limits GPUArray
\* passes: splay(self.size, WARP_SIZE, 128, 80).
EdgeSizes ==
    LET small == DEFAULT_MAX_BLOCKS * WARP_SIZE
        large == DEFAULT_MAX_BLOCKS * DEFAULT_MAX_THREADS
    IN {0, 1, WARP_SIZE - 1, WARP_SIZE, WARP_SIZE + 1,
        small - 1, small, small + 1, large - 1, large, large + 1}

CallSplayOfArray ==
    \E n \in EdgeSizes :
        /\ plan' = Planned(n, WARP_SIZE, DEFAULT_MAX_THREADS, DEFAULT_MAX_BLOCKS)
        /\ visited' = {}
        /\ launched' = FALSE
        /\ UNCHANGED arrayVars

\* The kernel launched with grid = (block_count, 1), block = (threads_per_block, 1, 1).
RunKernel ==
    /\ plan.called
    /\ ~launched
    /\ visited' = KernelIndices(plan.block_count, plan.threads_per_block, plan.n)
    /\ launched' = TRUE
    /\ UNCHANGED plan
    /\ UNCHANGED arrayVars

NextSplay == CallSplay \/ CallSplayOfArray \/ RunKernel

InitSplay == SplayInit /\ ArrayInit /\ harness = OneCall

SpecSplay == InitSplay /\ [][NextSplay]_vars

(***************************************************************************)
(* Properties of the planner and of the kernel's loop, under SpecSplay.    *)
(***************************************************************************)
\* C1: for every n >= 0 and positive limits with min_threads <= max_threads,
\* splay returns 1 <= block_count <= max_blocks and
\* 1 <= threads_per_block <= max_threads, in all four branches.
C1_LaunchWithinLimits ==
    plan.called =>
        /\ 1 <= plan.block_count
        /\ plan.block_count <= plan.max_blocks
        /\ 1 <= plan.threads_per_block
        /\ plan.threads_per_block <= plan.max_threads

\* C2: for every n >= 1, the kernel's loops, launched with the block_count
\* and threads_per_block splay returned for n, visit every index of 0 .. n-1.
C2_EveryIndexVisited ==
    (launched /\ plan.n >= 1) => \A i \in 0 .. (plan.n - 1) : i \in visited

\* C2, its case: a launch in the fourth branch with more elements than
\* threads, where indices are reached only by a thread's later iterations.
C2_LargeLaunchCovered ==
    /\ launched
    /\ Regime(plan.n, plan.min_threads, plan.max_threads, plan.max_blocks) = "large"
    /\ plan.n > plan.block_count * plan.threads_per_block
    /\ visited = 0 .. (plan.n - 1)

\* C3 as stated: whenever n >= min_threads, threads_per_block is a multiple
\* of min_threads, in every branch and for every max_threads and max_blocks.
C3_MultipleOfMinThreads ==
    (plan.called /\ plan.n >= plan.min_threads) =>
        \E k \in 1 .. plan.threads_per_block :
            plan.threads_per_block = k * plan.min_threads

\* C3, amended: whenever n >= min_threads, threads_per_block is a multiple
\* of min_threads in the second and third branch (n < max_blocks *
\* max_threads), and is max_threads itself in the fourth branch.
C3_MultipleUnlessLarge ==
    (plan.called /\ plan.n >= plan.min_threads) =>
        IF plan.n < plan.max_blocks * plan.max_threads
        THEN \E k \in 1 .. plan.threads_per_block :
                plan.threads_per_block = k * plan.min_threads
        ELSE plan.threads_per_block = plan.max_threads

\* C3, its case: the third branch rounds up to two warps of at least two
\* threads.
C3_MediumTwoWarps ==
    /\ plan.called
    /\ Regime(plan.n, plan.min_threads, plan.max_threads, plan.max_blocks) = "medium"
    /\ plan.min_threads >= 2
    /\ plan.threads_per_block = 2 * plan.min_threads

(***************************************************************************)
(* Spec and SpecSeq: the calls on arrays.                                  *)
(***************************************************************************)
Next ==
    \/ Construct \/ ToGpu \/ Zeros \/ CompileKernels
    \/ Set \/ Get \/ Fill
    \/ Add \/ Radd \/ Sub \/ Rsub \/ Iadd \/ Isub \/ Neg
    \/ Mul \/ Rmul \/ Imul \/ Div \/ Rdiv

Init == SplayInit /\ ArrayInit /\ harness = OneCall

Spec == Init /\ [][Next]_vars

InitSeq == SplayInit /\ ArrayInit /\ harness = ManyCalls

SpecSeq == InitSeq /\ [][Next]_vars

C5_EmptyArrayNoDeviceCall ==
    (/\ called
     /\ last.self \in DOMAIN arrays
     /\ arrays[last.self].size = 0)
    => (last.launches = <<>> /\ last.copies = 0)

\* C6: a two-array operation (+, -, +=, -=, *, /, reflected /) on operands
\* whose shapes or element types differ ends in an error, with no kernel
\* launched and nothing copied.
C6_MismatchRejectedBeforeLaunch ==
    (/\ called
     /\ last.okind = "array"
     /\ last.op \in {"__add__", "__sub__", "__iadd__", "__isub__", "__mul__",
                     "__div__", "__rdiv__"}
     /\ \/ arrays[last.self].shape # arrays[last.other].shape
        \/ arrays[last.self].dtype # arrays[last.other].dtype)
    => (last.status # "ok" /\ last.launches = <<>> /\ last.copies = 0)

\* C7: a two-array operation on float32 operands of one shape is rejected
\* exactly when both stream tags are set and are not the same stream;
\* otherwise the kernel is launched. (Reflected / is left to C9.)
C7_RejectedIffBothSetAndDistinct ==
    (/\ called
     /\ last.okind = "array"
     /\ last.op \in {"__add__", "__sub__", "__iadd__", "__isub__", "__mul__",
                     "__div__"}
     /\ arrays[last.self].dtype = "float32"
     /\ arrays[last.other].dtype = "float32"
     /\ arrays[last.self].shape = arrays[last.other].shape)
    => LET a == arrays[last.self].stream
           b == arrays[last.other].stream
           crossed == a # "None" /\ b # "None" /\ a # b
       IN IF crossed
          THEN last.status # "ok" /\ last.launches = <<>>
          ELSE last.status = "ok" /\ last.launches # <<>>

\* C8: x += other and x -= other on a float32 array x, other a scalar c or
\* an array of x's shape, element type and stream: the call succeeds,
\* launches axpb (scalar) or axpbyz (array) once, allocates nothing, returns
\* x, leaves x holding x[i] + other (x[i] - other) and the other operand
\* as it was.
C8_InPlaceAddSub ==
    [][(/\ called'
        /\ last'.op \in {"__iadd__", "__isub__"}
        /\ arrays[last'.self].dtype = "float32"
        /\ last'.okind = "array" =>
              /\ arrays[last'.other].dtype = "float32"
              /\ arrays[last'.other].shape = arrays[last'.self].shape
              /\ arrays[last'.other].stream = arrays[last'.self].stream)
       => LET s == last'.self
              sign == IF last'.op = "__iadd__" THEN 1 ELSE 0 - 1
              rhs(j) == IF last'.okind = "scalar"
                        THEN last'.other
                        ELSE arrays[last'.other].data[j]
          IN /\ last'.status = "ok"
             /\ last'.result = s
             /\ last'.allocs = 0
             /\ Len(last'.launches) = 1
             /\ last'.launches[1].kernel =
                    (IF last'.okind = "scalar" THEN "axpb" ELSE "axpbyz")
             /\ DOMAIN arrays' = DOMAIN Named
             /\ arrays'[s].data =
                    [j \in 1 .. arrays[s].size |->
                        arrays[s].data[j] + sign * rhs(j)]
             /\ \A o \in DOMAIN Named : o # s => arrays'[o] = arrays[o]]_vars

\* C9: other / x with arrays of one shape and element type succeeds and
\* returns a fresh array z of that shape and type with z[i] = other[i] / x[i],
\* both operands as they were.
C9_ReflectedDivideOfArrays ==
    (/\ called
     /\ last.op = "__rdiv__"
     /\ last.okind = "array"
     /\ arrays[last.self].dtype = "float32"
     /\ arrays[last.other].dtype = "float32"
     /\ arrays[last.self].shape = arrays[last.other].shape)
    => /\ last.status = "ok"
       /\ last.result = 0
       /\ 0 \in DOMAIN arrays
       /\ arrays[0].shape = arrays[last.self].shape
       /\ arrays[0].dtype = arrays[last.self].dtype
       /\ \A j \in 1 .. arrays[last.self].size :
             arrays[0].data[j] * arrays[last.self].data[j] =
                 arrays[last.other].data[j]

(***************************************************************************)
(* Properties of sequences of calls, under SpecSeq.                        *)
(***************************************************************************)
\* C10: over any sequence of calls each kernel template is compiled at most
\* once; the cache holds exactly the templates compiled; a call compiles
\* only what had not been compiled, and launches only compiled kernels.
C10_CompiledAtMostOnce ==
    /\ \A k \in KernelNames :
          /\ compiles[k] <= 1
          /\ k \in kernels <=> compiles[k] = 1
    /\ \A i \in DOMAIN last.launches : last.launches[i].kernel \in kernels

\* C10, its case: all six templates are compiled, and the last call
\* launched a kernel without compiling.
C10_AllCompiledAndReused ==
    /\ \A k \in KernelNames : compiles[k] = 1
    /\ last.launches # <<>>
    /\ last.compiled = {}

====
